---- MODULE Spec2Model ----
(***************************************************************************)
(* Unity connection management: session registry (sessions.py), message    *)
(* router (router.py) and connection orchestrator (unity_manager.py).      *)
(*                                                                         *)
(* Scheduling model: one asyncio event loop.  A task runs without          *)
(* interruption until it awaits something that really suspends (socket     *)
(* I/O, a subscriber callback, a future).  `async with self._lock` in      *)
(* sessions.py never suspends: every critical section is synchronous, so   *)
(* the lock is always free when it is requested and acquire() returns on   *)
(* its fast path.  accept / clear_if_match / get_all_sessions / clear_all  *)
(* therefore run inside the step of their caller.                          *)
(***************************************************************************)
EXTENDS Integers, FiniteSets, Sequences, TLC

\* ---- bounds ------------------------------------------------------------
\* Spec: websockets that connect, and the largest connection sequence
MaxConns == 3
MaxSeq == 2
\* SpecCmd: websockets that connect, and send_and_wait calls
CmdConns == 1
MaxCalls == 2
\* SpecLive: websockets that connect, and send_and_wait calls
LiveConns == 1
LiveCalls == 1
\* SpecTeardown: websockets that connect
TdConns == 2
\* SpecHb: websockets and clock ticks of the suspension scenarios
HbConns == 2
HbTicks == 3
\* SpecPing: websockets and clock ticks of the missed-pong scenario
PingConns == 1
PingTicks == 6
\* the scenario of the sends that raise: websockets and sweep intervals
SweepConns == 2
SweepTicks == 3
\* the idle scenario: websockets, and leaps of the wall clock
IdleConns == 2
IdleLeaps == 1
\* the router scenario: websockets and commands
RouterConns == 1
RouterCalls == 1
\* the scenario of the frames that are no envelope: websockets and sweep
\* intervals
FrameConns == 1
FrameTicks == 2
SendConns == 1
SendCalls == 1
SendTicks == 3
InternalConns == 1
InternalCalls == 1
ProjConns == 2

\* ---- program constants (types.py, CloseCode) ---------------------------
GOING_AWAY == 1001
SUPERSEDED == 4001
DUPLICATE_SESSION == 4002

\* heartbeat.py line 196 and line 242: the close codes of the heartbeat
IDLE_TIMEOUT == 1001
INTERNAL_ERROR == 1011
\* types.py HeartbeatConfig (milliseconds)
sweep_interval_ms == 40000
ping_after_idle_ms == 90000
max_idle_ms == 600000
max_missed_pongs == 3
\* router.py: how long a compilation event suspends the heartbeat
COMPILE_START_SUSPEND_MS == 120000
COMPILE_FINISH_SUSPEND_MS == 30000

Max(a, b) == IF a >= b THEN a ELSE b
WS == 1..Max(Max(Max(MaxConns, TdConns), Max(CmdConns, LiveConns)),
             Max(Max(HbConns, PingConns),
                 Max(Max(RouterConns, FrameConns),
                     Max(Max(IdleConns, SendConns),
                         Max(SweepConns, Max(InternalConns, ProjConns))))))
Calls == 1..Max(Max(MaxCalls, LiveCalls),
                Max(RouterCalls, Max(SendCalls, InternalCalls)))
Seqs == 0..MaxSeq
Sessions == {"s1", "s2"}
Bodies == {"b1", "b2"}
None == 0
ForeignId == 0

\* a router that consumes heartbeats only
INTERNAL_TYPES_hb_only == {"hb"}

\* router.py: types consumed by the router, never returned to the loop
INTERNAL_TYPES == {"hb", "ack", "pong"}
\* types.py ACK_REQUIRED_TYPES, as far as the peer of the model sends them
ACK_REQUIRED_TYPES == {"hello", "compile_started", "compile_finished"}
\* envelope types the peer sends: a heartbeat, a compilation start, and a
\* type without special handling (a command reply)
MsgTypes == {"hb", "compile_started", "result"}
\* what the peer sends in the liveness scenario (what compile_started does
\* to the commands is the subject of SpecCmd)
LiveMsgTypes == {"hb", "result"}
\* what the peer sends in the heartbeat scenarios: the two envelopes that
\* suspend the heartbeat, and in the ping scenario the answer to a ping
HbMsgTypes == {"compile_started", "compile_finished"}
PingMsgTypes == {"pong", "compile_started"}
\* what the peer sends in the router scenario: every type the router
\* handles itself, a type that requires an ack without being special, and
\* a type that requires none
RouterMsgTypes == {"hb", "ack", "pong", "hello", "compile_started", "result"}
\* what the peer sends among the frames that are no envelope
FrameMsgTypes == {"hello", "result"}

NoDecision == [accept |-> FALSE, supersede |-> None, reason |-> <<>>]
NoMsg == [frame |-> "none", type |-> "none", id |-> ForeignId, body |-> "none",
          delivered |-> 0, raised |-> FALSE, sent |-> <<>>]

NoConnectionError == <<"RuntimeError", "No Unity connection available">>
TimeoutError == <<"TimeoutError", "">>

VARIABLES
    sessions,           \* SessionManager._sessions: dict session_id -> SessionEntry
    current_ws,         \* UnityManager._current_ws (None = 0)
    current_connection, \* UnityManager._current_connection (record of that websocket)
    current_session,    \* UnityManager._current_session ("" = None)
    pending_commands,   \* keys of UnityManager._pending_commands
    future,             \* the asyncio.Future created by each send_and_wait call
    hb_running,         \* HeartbeatManager._running
    notified,           \* last value delivered to the connection-change subscribers
    hpc,                \* position of each handle_connection task
    session_id,         \* handle_connection argument, per websocket
    conn_seq,           \* handle_connection argument, per websocket
    decision,           \* local variable `decision` of handle_connection
    superseded,         \* websockets that accept has returned as `supersede`
    state,              \* ExtendedConnection.state
    msg,                \* frame being processed by the message loop, how often
                        \* it was passed to the domain-event sink, and the
                        \* envelopes the router sent in answer to it
    is_compiling,       \* ExtendedConnection.is_compiling
    closed,             \* close code the server issued on the websocket (0 = none)
    cpc,                \* position of each send_and_wait call
    sent_on,            \* websocket on which the call sent its envelope (0 = none)
    outcome,            \* what the send_and_wait call returned or raised
    ca_pc,              \* position of close_all
    ca_todo,            \* websockets of close_all's snapshot still to be closed
    now,                \* the clock read by time.time(), in milliseconds
    suspend_until,      \* HeartbeatManager._suspend_until, in milliseconds
    hb_pc,              \* position of the _heartbeat_loop task
    hb_wake,            \* when the task's asyncio.sleep ends
    sweep_now,          \* local `now` of _sweep_connections
    sweep_todo,         \* websockets of the sweep's snapshot still to be checked
    sweep_cur,          \* websocket whose check the sweep is suspended in (0 = none)
    is_alive,           \* ExtendedConnection.is_alive
    missed_pongs,       \* ExtendedConnection.missed_pongs
    last_seen,          \* ExtendedConnection.last_seen, in milliseconds
    pings,              \* number of "hb" envelopes the heartbeat sent on the websocket
    pending_pings,      \* HeartbeatManager._pending_pings (-1 = no entry)
    broken,             \* websockets whose send_json raises
    project_to_session, \* UnitySessionManager._project_to_session
    project_path        \* ExtendedConnection.project_path ("" = None)

vars == <<sessions, current_ws, current_connection, current_session,
          pending_commands, future, hb_running, notified, hpc, session_id,
          conn_seq, decision, superseded, state, msg, is_compiling, closed, cpc,
          sent_on,
          outcome, ca_pc, ca_todo, now, suspend_until, hb_pc, hb_wake,
          sweep_now, sweep_todo, sweep_cur, is_alive, missed_pongs, last_seen,
          pings,
          pending_pings, broken, project_to_session, project_path>>

mgrVars == <<current_ws, current_connection, current_session>>
connVars == <<hpc, session_id, conn_seq, decision, superseded, state, msg,
              is_compiling>>
callVars == <<cpc, sent_on, outcome>>
caVars == <<ca_pc, ca_todo>>
projVars == <<project_to_session, project_path>>
clockVars == <<now, suspend_until>>
hbTask == <<hb_pc, hb_wake, sweep_now, sweep_todo, sweep_cur>>
hbConn == <<is_alive, missed_pongs, last_seen, pings, pending_pings>>
hbVars == <<clockVars, hbTask, hbConn>>

\* ---- dict helpers ------------------------------------------------------
DictPut(d, k, v) == [x \in DOMAIN d \cup {k} |-> IF x = k THEN v ELSE d[x]]
DictDel(d, k) == [x \in DOMAIN d \ {k} |-> d[x]]
EmptyDict == [x \in {} |-> None]

\* ---- sessions.py -------------------------------------------------------
SessionEntry(seq, w) == [conn_seq |-> seq, websocket |-> w]

\* a rejection test that rejects nothing
IsStale_never(seq, existing_seq) == FALSE

\* a rejection test that lets an equal sequence through
IsStale_strict(seq, existing_seq) == seq < existing_seq

\* the rejection test of SessionManager.accept
IsStale(seq, existing_seq) == seq <= existing_seq

\* a takeover that hands back the new websocket
old_websocket_new(existing, w) == w

\* what accept returns as `supersede`
old_websocket(existing, w) == existing.websocket

\* a rejection that stores the rejected websocket all the same
rejected_stored(reg, sid, seq, w) == DictPut(reg, sid, SessionEntry(seq, w))

\* SessionManager.accept lines 88-93: a rejection returns without a write
rejected(reg, sid, seq, w) == reg

\* SessionManager.accept: the new registry and the AcceptDecision
accept(reg, sid, seq, w) ==
    IF sid \notin DOMAIN reg
    THEN [sessions |-> DictPut(reg, sid, SessionEntry(seq, w)),
          decision |-> [accept |-> TRUE, supersede |-> None, reason |-> <<>>]]
    ELSE IF IsStale(seq, reg[sid].conn_seq)
    THEN [sessions |-> rejected(reg, sid, seq, w),
          decision |-> [accept |-> FALSE, supersede |-> None,
                        reason |-> <<"Connection sequence", seq,
                                     "<= current", reg[sid].conn_seq>>]]
    ELSE [sessions |-> DictPut(reg, sid, SessionEntry(seq, w)),
          decision |-> [accept |-> TRUE,
                        supersede |-> old_websocket(reg[sid], w),
                        reason |-> <<>>]]

\* a removal that does not compare the websocket
EntryMatches_any(reg, sid, w) == sid \in DOMAIN reg

\* the identity test of clear_if_match
EntryMatches(reg, sid, w) == sid \in DOMAIN reg /\ reg[sid].websocket = w

\* UnitySessionManager.clear_if_match: the new registry and the return value
clear_if_match(reg, sid, w) ==
    IF EntryMatches(reg, sid, w)
    THEN [sessions |-> DictDel(reg, sid), result |-> TRUE]
    ELSE [sessions |-> reg, result |-> FALSE]

\* project paths of the peers; no path is given as None or ""
Paths == {"p1", "p2"}
NoPath == ""

\* UnitySessionManager.get_session_for_project lines 262-266
get_session_for_project(p2s, reg, path) ==
    IF path \in DOMAIN p2s
    THEN IF p2s[path] \in DOMAIN reg THEN reg[p2s[path]] ELSE None
    ELSE None

\* UnitySessionManager.clear_if_match lines 278-282:
\* `self._project_to_session.pop(entry.connection.project_path, None)`
pop_project(p2s, path, sid) == DictDel(p2s, path)

\* SessionManager.size
size(reg) == Cardinality(DOMAIN reg)

\* ---- unity_manager.py --------------------------------------------------
Init ==
    /\ sessions = EmptyDict
    /\ current_ws = None
    /\ current_connection = None
    /\ current_session = ""
    /\ pending_commands = {}
    /\ future = [c \in Calls |-> <<"none", "">>]
    /\ hb_running = FALSE
    /\ notified = "none"
    /\ hpc = [w \in WS |-> "idle"]
    /\ session_id = [w \in WS |-> ""]
    /\ conn_seq = [w \in WS |-> 0]
    /\ decision = [w \in WS |-> NoDecision]
    /\ superseded = {}
    /\ state = [w \in WS |-> "connecting"]
    /\ msg = [w \in WS |-> NoMsg]
    /\ is_compiling = [w \in WS |-> FALSE]
    /\ closed = [w \in WS |-> 0]
    /\ cpc = [c \in Calls |-> "idle"]
    /\ sent_on = [c \in Calls |-> None]
    /\ outcome = [c \in Calls |-> <<"none", "">>]
    /\ ca_pc = "idle"
    /\ ca_todo = {}
    /\ now = 0
    /\ suspend_until = 0
    /\ hb_pc = "stopped"
    /\ hb_wake = 0
    /\ sweep_now = 0
    /\ sweep_todo = {}
    /\ sweep_cur = None
    /\ is_alive = [w \in WS |-> TRUE]
    /\ missed_pongs = [w \in WS |-> 0]
    /\ last_seen = [w \in WS |-> 0]
    /\ pings = [w \in WS |-> 0]
    /\ pending_pings = [w \in WS |-> -1]
    /\ broken = {}
    /\ project_to_session = EmptyDict
    /\ project_path = [w \in WS |-> NoPath]

\* websocket.close(code): the first close wins, a second one raises and
\* is swallowed by the caller
CloseWith(cl, w, code) == IF cl[w] = 0 THEN [cl EXCEPT ![w] = code] ELSE cl

TransportError == <<"TransportError", "">>

\* a send that lets the transport's exception through
send_to_client_raising(fails) == IF fails THEN "raise" ELSE "true"

\* transport.py send_to_client lines 38-60: what ws.send_json raises is
\* caught and logged, the result is False
send_to_client(fails) == IF fails THEN "false" ELSE "true"

\* no task: HeartbeatManager.stop cancels the task at the await it is in
NoTask == <<"stopped", 0, 0, {}, None>>

\* the task's position and locals
SetTask(task) ==
    /\ hb_pc' = task[1]
    /\ hb_wake' = task[2]
    /\ sweep_now' = task[3]
    /\ sweep_todo' = task[4]
    /\ sweep_cur' = task[5]

\* HeartbeatManager.start: a task is created unless one is running; it
\* enters asyncio.sleep(sweep_interval)
start(running, task, t) ==
    IF running THEN task ELSE <<"sleeping", t + sweep_interval_ms, 0, {}, None>>

\* handle_connection lines 177-201: install as primary, OPEN, start the
\* heartbeat, notify subscribers with True, send the welcome and enter the
\* message loop.  The awaits of the subscribers and of the welcome change
\* no state; the task is suspended in them as it is in receive_text.
\* (The welcome is sent outside the try of line 200: an exception of the
\* send would end the call without a cleanup.)
\* The locals `conn_seq` and `decision` are not read after line 175.
Install(w, sid) ==
    /\ current_ws' = w
    /\ current_connection' = w
    /\ current_session' = sid
    /\ state' = [state EXCEPT ![w] = "open"]
    /\ hb_running' = TRUE
    /\ SetTask(start(hb_running, hbTask, now))
    /\ notified' = "true"
    /\ hpc' = [hpc EXCEPT ![w] =
                  IF send_to_client(w \in broken) = "raise" THEN "done" ELSE "loop"]
    /\ conn_seq' = [conn_seq EXCEPT ![w] = 0]
    /\ decision' = [decision EXCEPT ![w] = NoDecision]

\* websockets are numbered in the order in which they connect
IsNextConnection(w) == IF w = 1 THEN TRUE ELSE hpc[w - 1] # "idle"

\* handle_connection lines 133-187 up to the first await that suspends
\* after admission; the ExtendedConnection is created with
\* last_seen = time.time()
handle_connection(w, sid, seq) ==
    /\ hpc[w] = "idle"
    /\ IsNextConnection(w)
    /\ LET r == accept(sessions, sid, seq, w)
           d == r.decision
       IN /\ sessions' = r.sessions
          /\ session_id' = [session_id EXCEPT ![w] = sid]
          /\ superseded' = superseded \cup ({d.supersede} \ {None})
          /\ IF ~d.accept
             THEN /\ closed' = CloseWith(closed, w, DUPLICATE_SESSION)
                  /\ hpc' = [hpc EXCEPT ![w] = "rejecting"]
                  /\ conn_seq' = [conn_seq EXCEPT ![w] = seq]
                  /\ decision' = [decision EXCEPT ![w] = d]
                  /\ UNCHANGED <<mgrVars, state, hb_running, notified, hbTask>>
             ELSE IF d.supersede # None
             THEN /\ closed' = CloseWith(closed, d.supersede, SUPERSEDED)
                  /\ hpc' = [hpc EXCEPT ![w] = "superseding"]
                  /\ conn_seq' = [conn_seq EXCEPT ![w] = seq]
                  /\ decision' = [decision EXCEPT ![w] = d]
                  /\ UNCHANGED <<mgrVars, state, hb_running, notified, hbTask>>
             ELSE /\ Install(w, sid)
                  /\ UNCHANGED closed
    /\ last_seen' = [last_seen EXCEPT ![w] = now]
    /\ UNCHANGED <<pending_commands, future, msg, is_compiling, callVars, caVars, broken, projVars, clockVars,
                   is_alive, missed_pongs, pings, pending_pings>>

\* the arguments and locals of a handle_connection call end with the call,
\* and nothing refers to the flags of its connection record any more
Return(w) ==
    /\ hpc' = [hpc EXCEPT ![w] = "done"]
    /\ is_compiling' = [is_compiling EXCEPT ![w] = FALSE]
    /\ session_id' = [session_id EXCEPT ![w] = ""]
    /\ conn_seq' = [conn_seq EXCEPT ![w] = 0]
    /\ decision' = [decision EXCEPT ![w] = NoDecision]

\* a rejection that does not return: the rejected websocket is installed
handle_connection_rejected_installs(w) ==
    /\ hpc[w] = "rejecting"
    /\ Install(w, session_id[w])
    /\ UNCHANGED <<sessions, pending_commands, future, session_id,
                   superseded, msg, is_compiling, closed, callVars, caVars, broken, projVars,
                   clockVars, hbConn>>

\* handle_connection lines 160-164: the close of the rejected websocket
\* returned, handle_connection returns
handle_connection_rejected(w) ==
    /\ hpc[w] = "rejecting"
    /\ Return(w)
    /\ UNCHANGED <<sessions, mgrVars, pending_commands, future, hb_running,
                   notified, superseded, state, msg, closed, callVars, caVars, broken, projVars,
                   hbVars>>

\* handle_connection lines 177-187 after `await old_ws.close(...)` returned
handle_connection_install(w) ==
    /\ hpc[w] = "superseding"
    /\ Install(w, session_id[w])
    /\ UNCHANGED <<sessions, pending_commands, future, session_id,
                   superseded, msg, is_compiling, closed, callVars, caVars, broken, projVars, clockVars, hbConn>>

\* ---- router.py / _message_loop -----------------------------------------
\* a cancellation that stops after the first pending command
on_compilation_started_first(fut, pend) ==
    [c \in Calls |-> IF c \in pend /\ fut[c][1] = "pending"
                        /\ \A b \in pend : c <= b
                     THEN <<"exception", "Compilation started">>
                     ELSE fut[c]]

\* _on_compilation_started lines 390-393: fail every unresolved pending
\* future, then clear the map
on_compilation_started(fut, pend) ==
    [c \in Calls |-> IF c \in pend /\ fut[c][1] = "pending"
                     THEN <<"exception", "Compilation started">>
                     ELSE fut[c]]

\* a teardown that clears the map without failing the futures
cancel_pending_commands_clear_only(fut, pend) == fut

\* a teardown that fails every future of the map, done or not
cancel_pending_commands_unguarded(fut, pend) ==
    [c \in Calls |-> IF c \in pend
                     THEN <<"exception", "Connection closed">>
                     ELSE fut[c]]

\* _cleanup_connection lines 363-366
cancel_pending_commands(fut, pend) ==
    [c \in Calls |-> IF c \in pend /\ fut[c][1] = "pending"
                     THEN <<"exception", "Connection closed">>
                     ELSE fut[c]]

\* ids the peer can put into an envelope: ids of commands that were sent,
\* or an id of its own
PeerIds == {c \in Calls : sent_on[c] # None} \cup {ForeignId}

\* bodies the peer can put into an envelope.  No branch of the code reads
\* a body, a reply's body is only copied into the future: the replies to
\* the first command carry either body, every other envelope the first
PeerBodies(type, id) ==
    IF id = 1 /\ type = "result" THEN Bodies ELSE {"b1"}

\* a cleanup that never forgets the primary connection
IsPrimary_never(cur, w) == FALSE

\* _cleanup_connection line 356: `self._current_ws is websocket`
IsPrimary(cur, w) == cur = w

\* handle_connection lines 202-207 for an exception that leaves the message
\* loop, and _cleanup_connection lines 351-369 up to the await of the
\* subscribers
Cleanup(w) ==
    /\ state' = [state EXCEPT ![w] = "closed"]
    /\ sessions' = clear_if_match(sessions, session_id[w], w).sessions
    /\ IF IsPrimary(current_ws, w)
       THEN /\ current_ws' = None
            /\ current_connection' = None
            /\ current_session' = ""
       ELSE UNCHANGED mgrVars
    /\ future' = cancel_pending_commands(future, pending_commands)
    /\ pending_commands' = {}
    /\ notified' = "false"
    /\ hpc' = [hpc EXCEPT ![w] = "cleanup"]
    /\ UNCHANGED <<hb_running, session_id, conn_seq, decision, superseded,
                   closed, callVars, caVars, broken, projVars>>

\* a suspend that always takes the new deadline
suspend_overwrite(until, t, duration_ms) == t + duration_ms

\* HeartbeatManager.suspend: only extend, never shorten
suspend(until, t, duration_ms) ==
    IF t + duration_ms > until THEN t + duration_ms ELSE until

\* _handle_special_types lines 204-205 and 217-218
suspend_heartbeat(until, t, type) ==
    IF type = "compile_started" THEN suspend(until, t, COMPILE_START_SUSPEND_MS)
    ELSE IF type = "compile_finished" THEN suspend(until, t, COMPILE_FINISH_SUSPEND_MS)
    ELSE until

\* a router that forwards nothing
on_domain_event_none(m) == m

\* handle_message lines 118-122: the envelope is passed to the sink
on_domain_event(m) == [m EXCEPT !.delivered = @ + 1]

\* a pong with an id of the router's own
send_pong_fresh_id(m) == [m EXCEPT !.sent = Append(@, [type |-> "pong", id |-> ForeignId])]

\* _send_pong lines 244-254: a pong that echoes the heartbeat's id
send_pong(m) == [m EXCEPT !.sent = Append(@, [type |-> "pong", id |-> m.id])]

\* a router that acks every forwarded type
should_ack_always(type) == TRUE

\* _should_ack line 229
should_ack(type) == type \in ACK_REQUIRED_TYPES

\* _send_ack lines 231-242: an ack that echoes the envelope's id
send_ack(m) == [m EXCEPT !.sent = Append(@, [type |-> "ack", id |-> m.id])]

\* a router that never clears the flag
set_is_compiling_sticky(compiling, type) ==
    IF type = "compile_started" THEN TRUE ELSE compiling

\* _handle_special_types lines 202 and 215
set_is_compiling(compiling, type) ==
    IF type = "compile_started" THEN TRUE
    ELSE IF type = "compile_finished" THEN FALSE
    ELSE compiling

\* a router whose sink call is not guarded
propagates_uncaught(exc) == exc

\* handle_message lines 118-122 (and _handle_domain_event lines 380-383):
\* the sink is awaited inside try/except Exception, what it raises is
\* logged and goes no further
propagates(exc) == FALSE

\* an update that resets the health counters and keeps the time
update_seen_keeps_time(w) ==
    /\ last_seen' = last_seen
    /\ is_alive' = [is_alive EXCEPT ![w] = TRUE]
    /\ missed_pongs' = [missed_pongs EXCEPT ![w] = 0]

\* ExtendedConnection.update_seen, types.py lines 122-126
update_seen(w) ==
    /\ last_seen' = [last_seen EXCEPT ![w] = now]
    /\ is_alive' = [is_alive EXCEPT ![w] = TRUE]
    /\ missed_pongs' = [missed_pongs EXCEPT ![w] = 0]

\* _message_loop line 328 and MessageRouter.handle_message lines 89-120 for
\* a valid envelope, up to the first await that suspends: the pong of a
\* heartbeat, the ack of a type that requires one, or else the sink, which
\* raises iff exc.  compile_started and compile_finished run
\* _handle_special_types lines 200-221 in this step; for an ack or a pong
\* handle_message returns None in this step (lines 190-197, 110-111) and
\* the loop continues.  Line 89 is connection.update_seen().
message_loop_receive(w, type, id, body, exc) ==
    /\ hpc[w] = "loop"
    /\ LET m == [frame |-> "object", type |-> type, id |-> id, body |-> body,
                 delivered |-> 0, raised |-> FALSE, sent |-> <<>>]
       IN msg' = [msg EXCEPT ![w] =
                     IF type = "hb" THEN send_pong(m)
                     ELSE IF type \in INTERNAL_TYPES THEN m
                     ELSE IF should_ack(type) THEN send_ack(m)
                     ELSE [on_domain_event(m) EXCEPT !.raised = exc]]
    /\ is_compiling' = [is_compiling EXCEPT ![w] = set_is_compiling(@, type)]
    /\ update_seen(w)
    /\ suspend_until' = suspend_heartbeat(suspend_until, now, type)
    /\ IF type \notin INTERNAL_TYPES /\ ~should_ack(type) /\ propagates(exc)
       THEN Cleanup(w)
       ELSE /\ IF type = "compile_started"
               THEN /\ future' = on_compilation_started(future, pending_commands)
                    /\ pending_commands' = {}
               ELSE UNCHANGED <<future, pending_commands>>
            /\ hpc' = [hpc EXCEPT ![w] =
                          IF type = "hb" THEN "ponging"
                          ELSE IF type \in INTERNAL_TYPES THEN "loop"
                          ELSE IF should_ack(type) THEN "acking"
                          ELSE "forwarding"]
            /\ UNCHANGED <<sessions, mgrVars, hb_running, notified, session_id,
                           conn_seq, decision, superseded, state, closed,
                           callVars, caVars, broken, projVars>>
    /\ UNCHANGED <<now, hbTask, pings, pending_pings>>

\* the frames that are no envelope: text that is no JSON, a JSON object
\* that lacks a required field, and a JSON value that is no container
\* (a number, true, false, null)
Frames == {"not_json", "incomplete", "scalar"}

\* _validate_message line 143: `f not in data` raises TypeError for a value
\* that is no container
validate_message_raises(frame) == frame = "scalar"

\* _message_loop line 328 and handle_message lines 89-102 for a frame that
\* is no envelope: update_seen, then json.loads raises (lines 95-97) or
\* _validate_message returns None (lines 100-102) and handle_message
\* returns None without an await, or _validate_message raises and the
\* exception leaves handle_message and _message_loop
message_loop_malformed(w, frame) ==
    /\ hpc[w] = "loop"
    /\ update_seen(w)
    /\ msg' = [msg EXCEPT ![w] = [NoMsg EXCEPT !.frame = frame]]
    /\ IF validate_message_raises(frame)
       THEN Cleanup(w)
       ELSE UNCHANGED <<sessions, mgrVars, pending_commands, future,
                        hb_running, notified, hpc, session_id, conn_seq,
                        decision, superseded, state, closed, callVars, caVars, broken, projVars>>
    /\ UNCHANGED <<is_compiling, now, suspend_until, hbTask, pings,
                   pending_pings>>

\* handle_message lines 186-187, 110-111 and _message_loop lines 334-335:
\* the pong was sent: handle_message returns None, the loop continues
message_loop_internal_done(w) ==
    /\ hpc[w] = "ponging"
    /\ msg' = [msg EXCEPT ![w] = NoMsg]
    /\ IF send_to_client(w \in broken) = "raise"
       THEN Cleanup(w)
       ELSE /\ hpc' = [hpc EXCEPT ![w] = "loop"]
            /\ UNCHANGED <<sessions, mgrVars, pending_commands, future,
                           hb_running, notified, session_id, conn_seq, decision,
                           superseded, state, closed, callVars, caVars, broken, projVars>>
    /\ UNCHANGED <<hbVars, is_compiling>>

\* handle_message lines 114-122: the ack was sent, the envelope is passed
\* to the sink, which raises iff exc
message_loop_ack_sent(w, exc) ==
    /\ hpc[w] = "acking"
    /\ msg' = [msg EXCEPT ![w] =
                  IF send_to_client(w \in broken) = "raise" THEN msg[w]
                  ELSE [on_domain_event(msg[w]) EXCEPT !.raised = exc]]
    /\ IF send_to_client(w \in broken) = "raise" \/ propagates(exc)
       THEN Cleanup(w)
       ELSE /\ hpc' = [hpc EXCEPT ![w] = "forwarding"]
            /\ UNCHANGED <<sessions, mgrVars, pending_commands, future,
                           hb_running, notified, session_id, conn_seq, decision,
                           superseded, state, closed, callVars, caVars, broken, projVars>>
    /\ UNCHANGED <<hbVars, is_compiling>>

\* a correlation on body["request_id"], which no reply carries
set_result_by_request_id(fut, pend, m) == fut

\* _message_loop lines 339-342: the future the envelope's id resolves
set_result(fut, pend, m) ==
    IF m.id \in pend /\ fut[m.id][1] = "pending"
    THEN [fut EXCEPT ![m.id] = <<"result", m.body>>]
    ELSE fut

\* handle_message lines 120-124: the sink returned, handle_message returns
\* the envelope; _message_loop lines 339-342 match it
message_loop_correlate(w) ==
    /\ hpc[w] = "forwarding"
    /\ future' = set_result(future, pending_commands, msg[w])
    /\ hpc' = [hpc EXCEPT ![w] = "loop"]
    /\ msg' = [msg EXCEPT ![w] = NoMsg]
    /\ UNCHANGED <<sessions, mgrVars, pending_commands, hb_running, notified,
                   session_id, conn_seq, decision, superseded, state, closed, callVars, caVars, broken, projVars,
                   hbVars, is_compiling>>

\* receive_text raises (peer gone, or the server closed the websocket)
cleanup_connection(w) ==
    /\ hpc[w] = "loop"
    /\ Cleanup(w)
    /\ UNCHANGED <<msg, is_compiling, hbVars>>

\* a cleanup that leaves the heartbeat running
stop_if_empty_never(reg, running) == running

\* _cleanup_connection lines 372-373: stop the heartbeat if no session is left
stop_if_empty(reg, running) == IF size(reg) = 0 THEN FALSE ELSE running

\* _cleanup_connection lines 369-375: the subscribers returned
cleanup_connection_finish(w) ==
    /\ hpc[w] = "cleanup"
    /\ hb_running' = stop_if_empty(sessions, hb_running)
    /\ SetTask(IF hb_running' THEN hbTask ELSE NoTask)
    /\ Return(w)
    /\ UNCHANGED <<sessions, mgrVars, pending_commands, future, notified,
                   superseded, state, msg, closed, callVars, caVars, broken, projVars,
                   clockVars, hbConn>>


\* ---- send_and_wait -----------------------------------------------------
\* calls are numbered in the order in which they are made; the number is
\* the fresh msg.id of the call
IsNextCall(c) == IF c = 1 THEN TRUE ELSE cpc[c - 1] # "idle"

\* a send_and_wait without the connection check
NoConnection_unchecked == FALSE

\* send_and_wait line 230
NoConnection == current_ws = None \/ current_connection = None

\* a `finally` that empties the whole map
pop_pending_all(pend, c) == {}

\* a send_and_wait without the `finally`
pop_pending_missing(pend, c) == pend

\* send_and_wait line 259: `finally: self._pending_commands.pop(msg.id, None)`
pop_pending(pend, c) == pend \ {c}

\* send_and_wait lines 230-253: fail without a connection; otherwise
\* register the future, send the envelope on the primary websocket (the
\* result of send_to_client is ignored) and await the future
send_and_wait(c) ==
    /\ cpc[c] = "idle"
    /\ IsNextCall(c)
    /\ IF NoConnection
       THEN /\ outcome' = [outcome EXCEPT ![c] = NoConnectionError]
            /\ cpc' = [cpc EXCEPT ![c] = "done"]
            /\ UNCHANGED <<future, pending_commands, sent_on>>
       ELSE IF send_to_client(current_ws \in broken) = "raise"
       THEN /\ future' = [future EXCEPT ![c] = <<"pending", "">>]
            /\ pending_commands' = pop_pending(pending_commands, c)
            /\ sent_on' = [sent_on EXCEPT ![c] = current_ws]
            /\ outcome' = [outcome EXCEPT ![c] = TransportError]
            /\ cpc' = [cpc EXCEPT ![c] = "done"]
       ELSE /\ future' = [future EXCEPT ![c] = <<"pending", "">>]
            /\ pending_commands' = pending_commands \cup {c}
            /\ sent_on' = [sent_on EXCEPT ![c] = current_ws]
            /\ cpc' = [cpc EXCEPT ![c] = "waiting"]
            /\ UNCHANGED outcome
    /\ UNCHANGED <<sessions, mgrVars, hb_running, notified, connVars, closed,
                   caVars, broken, projVars,
                   hbVars>>

\* send_and_wait lines 253, 258-259: the future is done, wait_for returns
\* its result or raises its exception
send_and_wait_resume(c) ==
    /\ cpc[c] = "waiting"
    /\ future[c][1] \in {"result", "exception"}
    /\ outcome' = [outcome EXCEPT ![c] =
                      IF future[c][1] = "result"
                      THEN <<"return", future[c][2]>>
                      ELSE <<"RuntimeError", future[c][2]>>]
    /\ pending_commands' = pop_pending(pending_commands, c)
    /\ cpc' = [cpc EXCEPT ![c] = "done"]
    /\ UNCHANGED <<sessions, mgrVars, future, hb_running, notified, connVars,
                   closed, sent_on, caVars, broken, projVars,
                   hbVars>>

\* a wait without a timeout
send_and_wait_no_timeout(c) ==
    /\ cpc[c] = "waiting"
    /\ FALSE
    /\ UNCHANGED vars

\* send_and_wait lines 253-259: the timeout expires before the future is
\* done; wait_for cancels the future and raises TimeoutError
send_and_wait_timeout(c) ==
    /\ cpc[c] = "waiting"
    /\ future[c][1] = "pending"
    /\ future' = [future EXCEPT ![c] = <<"cancelled", "">>]
    /\ outcome' = [outcome EXCEPT ![c] = TimeoutError]
    /\ pending_commands' = pop_pending(pending_commands, c)
    /\ cpc' = [cpc EXCEPT ![c] = "done"]
    /\ UNCHANGED <<sessions, mgrVars, hb_running, notified, connVars, closed,
                   sent_on, caVars, broken, projVars,
                   hbVars>>

\* ---- close_all ---------------------------------------------------------
\* close_all lines 298-301: stop the heartbeat, cancel the CommandRouter's
\* own (always empty) map, snapshot the registry
close_all ==
    /\ ca_pc = "idle"
    /\ hb_running' = FALSE
    /\ SetTask(NoTask)
    /\ ca_todo' = {sessions[s].websocket : s \in DOMAIN sessions}
    /\ ca_pc' = "closing"
    /\ UNCHANGED <<sessions, mgrVars, pending_commands, future, notified,
                   connVars, closed, callVars, broken, projVars,
                   clockVars, hbConn>>

\* close_all lines 302-309: close one websocket of the snapshot
close_all_close(w) ==
    /\ ca_pc = "closing"
    /\ w \in ca_todo
    /\ closed' = CloseWith(closed, w, GOING_AWAY)
    /\ ca_todo' = ca_todo \ {w}
    /\ UNCHANGED <<sessions, mgrVars, pending_commands, future, hb_running,
                   notified, connVars, callVars, ca_pc, broken, projVars,
                   hbVars>>

\* close_all lines 311-314: clear_all, forget the primary connection
close_all_finish ==
    /\ ca_pc = "closing"
    /\ ca_todo = {}
    /\ sessions' = EmptyDict
    /\ current_ws' = None
    /\ current_connection' = None
    /\ current_session' = ""
    /\ ca_pc' = "done"
    /\ UNCHANGED <<pending_commands, future, hb_running, notified, connVars,
                   closed, callVars, ca_todo, broken, projVars,
                   hbVars>>

\* ---- heartbeat.py ------------------------------------------------------
\* HeartbeatManager.is_suspended
is_suspended(t, until) == t < until

\* the fields a sweep writes
Health ==
    [is_alive |-> is_alive, missed_pongs |-> missed_pongs, pings |-> pings,
     pending_pings |-> pending_pings, closed |-> closed]

\* a check that does not look at the record's state
is_open_any(st) == TRUE

\* _check_connection lines 187-189: only OPEN connections are checked
is_open(st) == st = "open"

\* a check without a limit on the idle time
idle_too_long_never(idle_ms) == FALSE

\* _check_connection line 195
idle_too_long(idle_ms) == idle_ms > max_idle_ms

\* a check that gives up one miss early
too_many_missed_early(missed) == missed >= max_missed_pongs - 1

\* _check_connection line 209
too_many_missed(missed) == missed >= max_missed_pongs

\* _check_connection lines 176-215 with _send_ping_to, _close and
\* _terminate: the fields after the check of websocket w with the sweep's
\* time t, and whether the check awaited a send or a close.  (No code
\* assigns CLOSING, so lines 180-185 are never taken.)
check_connection(h, w, t) ==
    IF ~is_open(state[w])
    THEN [h |-> h, awaits |-> FALSE]
    ELSE LET idle_ms == t - last_seen[w]
             missed == IF h.is_alive[w] THEN h.missed_pongs[w]
                       ELSE h.missed_pongs[w] + 1
         IN IF idle_too_long(idle_ms)
            THEN [h |-> [h EXCEPT !.closed = CloseWith(@, w, IDLE_TIMEOUT)],
                  awaits |-> TRUE]
            ELSE IF idle_ms <= ping_after_idle_ms
            THEN [h |-> [h EXCEPT !.is_alive[w] = TRUE, !.missed_pongs[w] = 0],
                  awaits |-> FALSE]
            ELSE IF ~h.is_alive[w] /\ too_many_missed(missed)
            THEN [h |-> [h EXCEPT !.missed_pongs[w] = missed,
                                  !.pending_pings[w] = -1,
                                  !.closed = CloseWith(@, w, INTERNAL_ERROR)],
                  awaits |-> TRUE]
            ELSE [h |-> [h EXCEPT !.missed_pongs[w] = missed,
                                  !.is_alive[w] = FALSE,
                                  !.pending_pings[w] = t,
                                  !.pings[w] = @ + 1],
                  awaits |-> TRUE]

\* _sweep_connections lines 155-159: check the entries of the snapshot in
\* the registry's order, up to the first check that awaits.  (Every
\* session of a heartbeat scenario is new when its websocket connects, so
\* the registry holds the websockets in the order of their arrival.)
RECURSIVE sweep_connections(_, _, _)
sweep_connections(h, todo, t) ==
    IF todo = {}
    THEN [h |-> h, todo |-> {}, cur |-> None, awaits |-> FALSE]
    ELSE LET w == CHOOSE x \in todo : \A y \in todo : x <= y
             r == check_connection(h, w, t)
         IN IF r.awaits
            THEN [h |-> r.h, todo |-> todo \ {w}, cur |-> w, awaits |-> TRUE]
            ELSE sweep_connections(r.h, todo \ {w}, t)

\* the sweep goes on until it awaits, or ends and the loop sleeps again
Swept(r, t) ==
    /\ is_alive' = r.h.is_alive
    /\ missed_pongs' = r.h.missed_pongs
    /\ pings' = r.h.pings
    /\ pending_pings' = r.h.pending_pings
    /\ closed' = r.h.closed
    /\ IF r.awaits
       THEN SetTask(<<"sweeping", 0, t, r.todo, r.cur>>)
       ELSE SetTask(<<"sleeping", now + sweep_interval_ms, 0, {}, None>>)

\* the snapshot of _get_connections
Registered == {sessions[s].websocket : s \in DOMAIN sessions}

\* _heartbeat_loop lines 127-136 and _sweep_connections lines 149-153: the
\* sleep ended; skip the sweep if suspended, else start it
heartbeat_loop ==
    /\ hb_pc = "sleeping"
    /\ now >= hb_wake
    /\ IF is_suspended(now, suspend_until)
       THEN /\ SetTask(<<"sleeping", now + sweep_interval_ms, 0, {}, None>>)
            /\ UNCHANGED <<is_alive, missed_pongs, pings, pending_pings, closed>>
       ELSE Swept(sweep_connections(Health, Registered, now), now)
    /\ UNCHANGED <<sessions, mgrVars, pending_commands, future, hb_running,
                   notified, connVars, callVars, caVars, broken, projVars, clockVars, last_seen>>

\* _sweep_connections lines 155-159: the send or the close that a check
\* awaited returned
sweep_connections_resume ==
    /\ hb_pc = "sweeping"
    /\ Swept(sweep_connections(Health, sweep_todo, sweep_now), sweep_now)
    /\ UNCHANGED <<sessions, mgrVars, pending_commands, future, hb_running,
                   notified, connVars, callVars, caVars, broken, projVars, clockVars, last_seen>>

\* a sweep that an exception ends
after_exception_abort(todo) == {}

\* _send_ping_to lines 225-227 and _sweep_connections lines 156-159: the
\* exception is logged where the check of the one connection ends, and the
\* loop over the snapshot goes on
after_exception(todo) == todo

\* _send_ping_to lines 222-227: the send that the check of sweep_cur
\* awaited raised, no envelope went out; the entry of the ping is
\* dropped, the check ends and the sweep goes on
sweep_connections_raise ==
    /\ hb_pc = "sweeping"
    /\ pending_pings[sweep_cur] = sweep_now
    /\ Swept(sweep_connections([Health EXCEPT !.pending_pings[sweep_cur] = -1,
                                              !.pings[sweep_cur] = @ - 1],
                               after_exception(sweep_todo), sweep_now),
             sweep_now)
    /\ UNCHANGED <<sessions, mgrVars, pending_commands, future, hb_running,
                   notified, connVars, callVars, caVars, broken, projVars, clockVars, last_seen>>

\* the transport of websocket w fails (the peer is gone, the socket is
\* reset), be it before the welcome is sent: from now on ws.send_json
\* raises
transport_breaks(w) ==
    /\ hpc[w] # "done"
    /\ IsNextConnection(w)
    /\ w \notin broken
    /\ broken' = broken \cup {w}
    /\ UNCHANGED <<sessions, mgrVars, pending_commands, future, hb_running,
                   notified, connVars, closed, callVars, ca_pc, ca_todo, hbVars,
                   projVars>>

\* the clock advances by one sweep interval; a sleep that is over wakes
\* the task before the clock advances again, and a send or a close that
\* a sweep awaits returns within the interval
Tick(ticks) ==
    /\ now < ticks * sweep_interval_ms
    /\ hb_pc # "sweeping"
    /\ hb_pc = "sleeping" => now < hb_wake
    /\ now' = now + sweep_interval_ms
    /\ UNCHANGED <<sessions, mgrVars, pending_commands, future, hb_running,
                   notified, connVars, closed, callVars, caVars, broken, projVars, suspend_until,
                   hbTask, hbConn>>

\* time.time() leaps (the host was suspended, or its clock was set): the
\* wall clock, which _sweep_connections line 149 and update_seen read,
\* advances by LeapTicks sweep intervals at once, past max_idle_ms
LeapTicks == (max_idle_ms \div sweep_interval_ms) + 1
Leap(leaps) ==
    /\ now < leaps * LeapTicks * sweep_interval_ms
    /\ hb_pc # "sweeping"
    /\ now' = now + LeapTicks * sweep_interval_ms
    /\ UNCHANGED <<sessions, mgrVars, pending_commands, future, hb_running,
                   notified, connVars, closed, callVars, caVars, broken, projVars, suspend_until,
                   hbTask, hbConn>>

\* the session ids are interchangeable: the first websocket uses "s1"
SessionsFor(w) == IF w = 1 THEN {"s1"} ELSE Sessions

\* ---- Spec: admission, takeover, teardown and shutdown ------------------
\* (no step of these operations reads the state of a command)
Next ==
    \/ \E w \in 1..MaxConns : \E sid \in SessionsFor(w), seq \in Seqs :
          handle_connection(w, sid, seq)
    \/ \E w \in 1..MaxConns : handle_connection_rejected(w)
    \/ \E w \in 1..MaxConns : handle_connection_install(w)
    \/ \E w \in 1..MaxConns : cleanup_connection(w)
    \/ \E w \in 1..MaxConns : cleanup_connection_finish(w)
    \/ close_all
    \/ \E w \in 1..MaxConns : close_all_close(w)
    \/ close_all_finish

Spec == Init /\ [][Next]_vars

\* ---- SpecCmd: commands, replies and the events that cancel them -------
\* every websocket connects with the default conn_seq under a session that
\* has no entry, so it is admitted and installed in one step (rejection
\* and takeover are the subject of Spec; close_all, which writes no state
\* of a command, is part of SpecLive)
NextCmd ==
    \/ \E w \in 1..CmdConns : \E sid \in SessionsFor(w) \ DOMAIN sessions :
          handle_connection(w, sid, 0)
    \/ \E w \in 1..CmdConns, type \in MsgTypes, id \in PeerIds :
          \E body \in PeerBodies(type, id) :
             message_loop_receive(w, type, id, body, FALSE)
    \/ \E w \in 1..CmdConns : message_loop_internal_done(w)
    \/ \E w \in 1..CmdConns : message_loop_ack_sent(w, FALSE)
    \/ \E w \in 1..CmdConns : message_loop_correlate(w)
    \/ \E w \in 1..CmdConns : cleanup_connection(w)
    \/ \E w \in 1..CmdConns : cleanup_connection_finish(w)
    \/ \E c \in 1..MaxCalls : send_and_wait(c)
    \/ \E c \in 1..MaxCalls : send_and_wait_resume(c)
    \/ \E c \in 1..MaxCalls : send_and_wait_timeout(c)

SpecCmd == Init /\ [][NextCmd]_vars

\* ---- SpecLive: commands and shutdown under the event loop's scheduling -
\* a call whose future is done is resumed, and the timer of wait_for fires.
\* No branch of the code reads the body of an envelope: one body suffices.
NextLive ==
    \/ \E w \in 1..LiveConns : \E sid \in SessionsFor(w) \ DOMAIN sessions :
          handle_connection(w, sid, 0)
    \/ \E w \in 1..LiveConns, type \in LiveMsgTypes, id \in PeerIds :
          message_loop_receive(w, type, id, "b1", FALSE)
    \/ \E w \in 1..LiveConns : message_loop_internal_done(w)
    \/ \E w \in 1..LiveConns : message_loop_correlate(w)
    \/ \E w \in 1..LiveConns : cleanup_connection(w)
    \/ \E w \in 1..LiveConns : cleanup_connection_finish(w)
    \/ \E c \in 1..LiveCalls : send_and_wait(c)
    \/ \E c \in 1..LiveCalls : send_and_wait_resume(c)
    \/ \E c \in 1..LiveCalls : send_and_wait_timeout(c)
    \/ close_all
    \/ \E w \in 1..LiveConns : close_all_close(w)
    \/ close_all_finish

SpecLive ==
    /\ Init
    /\ [][NextLive]_vars
    /\ \A c \in 1..LiveCalls : WF_vars(send_and_wait_resume(c))
    /\ \A c \in 1..LiveCalls : WF_vars(send_and_wait_timeout(c))

\* ---- SpecTeardown: Spec's steps; the subscribers of a connection change
\* return, so a cleanup that awaits them goes on
NextTeardown ==
    \/ \E w \in 1..TdConns : \E sid \in SessionsFor(w), seq \in Seqs :
          handle_connection(w, sid, seq)
    \/ \E w \in 1..TdConns : handle_connection_rejected(w)
    \/ \E w \in 1..TdConns : handle_connection_install(w)
    \/ \E w \in 1..TdConns : cleanup_connection(w)
    \/ \E w \in 1..TdConns : cleanup_connection_finish(w)
    \/ close_all
    \/ \E w \in 1..TdConns : close_all_close(w)
    \/ close_all_finish

SpecTeardown ==
    /\ Init
    /\ [][NextTeardown]_vars
    /\ \A w \in 1..TdConns : WF_vars(cleanup_connection_finish(w))

\* ---- SpecHb: the heartbeat, its suspension and the message loops ------
\* every websocket connects under a session that has no entry
NextHb ==
    \/ \E w \in 1..HbConns : \E sid \in SessionsFor(w) \ DOMAIN sessions :
          handle_connection(w, sid, 0)
    \/ \E w \in 1..HbConns, type \in HbMsgTypes :
          message_loop_receive(w, type, ForeignId, "b1", FALSE)
    \/ \E w \in 1..HbConns : message_loop_ack_sent(w, FALSE)
    \/ \E w \in 1..HbConns : message_loop_correlate(w)
    \/ \E w \in 1..HbConns : cleanup_connection(w)
    \/ \E w \in 1..HbConns : cleanup_connection_finish(w)
    \/ heartbeat_loop
    \/ sweep_connections_resume
    \/ Tick(HbTicks)

SpecHb == Init /\ [][NextHb]_vars

\* ---- SpecPing: SpecHb's steps, fewer websockets over a longer time ------
NextPing ==
    \/ \E w \in 1..PingConns : \E sid \in SessionsFor(w) \ DOMAIN sessions :
          handle_connection(w, sid, 0)
    \/ \E w \in 1..PingConns, type \in PingMsgTypes :
          message_loop_receive(w, type, ForeignId, "b1", FALSE)
    \/ \E w \in 1..PingConns : message_loop_ack_sent(w, FALSE)
    \/ \E w \in 1..PingConns : message_loop_correlate(w)
    \/ \E w \in 1..PingConns : cleanup_connection(w)
    \/ \E w \in 1..PingConns : cleanup_connection_finish(w)
    \/ heartbeat_loop
    \/ sweep_connections_resume
    \/ Tick(PingTicks)

SpecPing == Init /\ [][NextPing]_vars

\* ---- SpecIdle: the wall clock leaps past max_idle_ms; a read from a
\* websocket that the server closed raises, so its cleanup follows
NextIdle ==
    \/ \E w \in 1..IdleConns : \E sid \in SessionsFor(w) \ DOMAIN sessions :
          handle_connection(w, sid, 0)
    \/ \E w \in 1..IdleConns :
          message_loop_receive(w, "pong", ForeignId, "b1", FALSE)
    \/ \E w \in 1..IdleConns : cleanup_connection(w)
    \/ \E w \in 1..IdleConns : cleanup_connection_finish(w)
    \/ heartbeat_loop
    \/ sweep_connections_resume
    \/ Leap(IdleLeaps)

SpecIdle ==
    /\ Init
    /\ [][NextIdle]_vars
    /\ WF_vars(heartbeat_loop)
    /\ WF_vars(sweep_connections_resume)
    /\ \A w \in 1..IdleConns : WF_vars(closed[w] # 0 /\ cleanup_connection(w))

\* ---- SpecSweep: silent connections, and sends of the sweep that raise --
NextSweep ==
    \/ \E w \in 1..SweepConns : \E sid \in SessionsFor(w) \ DOMAIN sessions :
          handle_connection(w, sid, 0)
    \/ \E w \in 1..SweepConns : cleanup_connection(w)
    \/ \E w \in 1..SweepConns : cleanup_connection_finish(w)
    \/ heartbeat_loop
    \/ sweep_connections_resume
    \/ sweep_connections_raise
    \/ Tick(SweepTicks)

SpecSweep == Init /\ [][NextSweep]_vars

\* ---- SpecRouter: every kind of frame, a sink that may raise -------------
\* the id matters where it is echoed or matched, the sink's outcome where
\* the sink is called
RouterIds(type) == IF type \in {"hb", "hello", "result"} THEN PeerIds ELSE {ForeignId}
SinkRaises(type) == IF type \in INTERNAL_TYPES \/ should_ack(type) THEN {FALSE} ELSE BOOLEAN

NextRouter ==
    \/ \E w \in 1..RouterConns : \E sid \in SessionsFor(w) \ DOMAIN sessions :
          handle_connection(w, sid, 0)
    \/ \E w \in 1..RouterConns, type \in RouterMsgTypes :
          \E id \in RouterIds(type), exc \in SinkRaises(type) :
             message_loop_receive(w, type, id, "b1", exc)
    \/ \E w \in 1..RouterConns, frame \in Frames : message_loop_malformed(w, frame)
    \/ \E w \in 1..RouterConns : message_loop_internal_done(w)
    \/ \E w \in 1..RouterConns : \E exc \in BOOLEAN : message_loop_ack_sent(w, exc)
    \/ \E w \in 1..RouterConns : message_loop_correlate(w)
    \/ \E w \in 1..RouterConns : cleanup_connection(w)
    \/ \E w \in 1..RouterConns : cleanup_connection_finish(w)
    \/ \E c \in 1..RouterCalls : send_and_wait(c)
    \/ \E c \in 1..RouterCalls : send_and_wait_resume(c)

SpecRouter == Init /\ [][NextRouter]_vars

\* ---- SpecFrames: frames that are no envelope, among envelopes, over time;
\* no command is sent
\* within FrameTicks sweep intervals no connection is idle long enough
\* for a sweep to await a ping
NextFrames ==
    \/ \E w \in 1..FrameConns : \E sid \in SessionsFor(w) \ DOMAIN sessions :
          handle_connection(w, sid, 0)
    \/ \E w \in 1..FrameConns, type \in FrameMsgTypes :
          message_loop_receive(w, type, ForeignId, "b1", FALSE)
    \/ \E w \in 1..FrameConns, frame \in Frames : message_loop_malformed(w, frame)
    \/ \E w \in 1..FrameConns : message_loop_ack_sent(w, FALSE)
    \/ \E w \in 1..FrameConns : message_loop_correlate(w)
    \/ \E w \in 1..FrameConns : cleanup_connection(w)
    \/ \E w \in 1..FrameConns : cleanup_connection_finish(w)
    \/ heartbeat_loop
    \/ Tick(FrameTicks)

SpecFrames == Init /\ [][NextFrames]_vars

\* ---- SpecSend: envelopes sent over transports that fail -----------------
\* the peer sends heartbeats (answered with a pong) and hellos (answered
\* with an ack)
SendMsgTypes == {"hb", "hello"}

NextSend ==
    \/ \E w \in 1..SendConns : \E sid \in SessionsFor(w) \ DOMAIN sessions :
          handle_connection(w, sid, 0)
    \/ \E w \in 1..SendConns, type \in SendMsgTypes :
          message_loop_receive(w, type, ForeignId, "b1", FALSE)
    \/ \E w \in 1..SendConns : message_loop_internal_done(w)
    \/ \E w \in 1..SendConns : message_loop_ack_sent(w, FALSE)
    \/ \E w \in 1..SendConns : message_loop_correlate(w)
    \/ \E w \in 1..SendConns : cleanup_connection(w)
    \/ \E w \in 1..SendConns : cleanup_connection_finish(w)
    \/ \E w \in 1..SendConns : transport_breaks(w)
    \/ \E c \in 1..SendCalls : send_and_wait(c)
    \/ \E c \in 1..SendCalls : send_and_wait_resume(c)
    \/ \E c \in 1..SendCalls : send_and_wait_timeout(c)
    \/ heartbeat_loop
    \/ sweep_connections_resume
    \/ Tick(SendTicks)

SpecSend == Init /\ [][NextSend]_vars

\* ---- SpecProjects: the registry with project paths ----------------------
\* a websocket that holds no entry connects: UnitySessionManager.accept
\* lines 239-255 with the fresh connection record of the websocket
unity_accept(w, sid, seq, path) ==
    /\ \A s \in DOMAIN sessions : sessions[s].websocket # w
    /\ \A v \in 1..ProjConns : hpc[v] = "idle"
    /\ LET r == accept(sessions, sid, seq, w)
       IN /\ sessions' = r.sessions
          /\ IF r.decision.accept /\ path # NoPath
             THEN /\ project_to_session' = DictPut(project_to_session, path, sid)
                  /\ project_path' = [project_path EXCEPT ![w] = path]
             ELSE /\ project_to_session' = project_to_session
                  /\ project_path' = [project_path EXCEPT ![w] = NoPath]
    /\ UNCHANGED <<mgrVars, pending_commands, future, hb_running, notified,
                   connVars, closed, callVars, caVars, broken, hbVars>>

\* UnitySessionManager.clear_if_match lines 272-287
unity_clear_if_match(sid, w) ==
    /\ IF EntryMatches(sessions, sid, w)
       THEN /\ project_to_session' =
                  IF project_path[w] # NoPath
                  THEN pop_project(project_to_session, project_path[w], sid)
                  ELSE project_to_session
            /\ sessions' = DictDel(sessions, sid)
       ELSE UNCHANGED <<sessions, project_to_session>>
    /\ UNCHANGED <<mgrVars, pending_commands, future, hb_running, notified,
                   connVars, closed, callVars, caVars, broken, hbVars,
                   project_path>>

NextProjects ==
    \/ \E w \in 1..ProjConns, sid \in Sessions, seq \in Seqs :
          \E path \in Paths \cup {NoPath} : unity_accept(w, sid, seq, path)
    \/ \E w \in 1..ProjConns, sid \in Sessions : unity_clear_if_match(sid, w)

SpecProjects == Init /\ [][NextProjects]_vars

\* ---- SpecInternal: envelopes of every internal type with the ids of the
\* commands, among replies and timeouts
InternalMsgTypes == {"hb", "ack", "pong", "result"}

NextInternal ==
    \/ \E w \in 1..InternalConns : \E sid \in SessionsFor(w) \ DOMAIN sessions :
          handle_connection(w, sid, 0)
    \/ \E w \in 1..InternalConns, type \in InternalMsgTypes, id \in PeerIds :
          \E body \in PeerBodies(type, id) :
             message_loop_receive(w, type, id, body, FALSE)
    \/ \E w \in 1..InternalConns : message_loop_internal_done(w)
    \/ \E w \in 1..InternalConns : message_loop_correlate(w)
    \/ \E w \in 1..InternalConns : cleanup_connection(w)
    \/ \E w \in 1..InternalConns : cleanup_connection_finish(w)
    \/ \E c \in 1..InternalCalls : send_and_wait(c)
    \/ \E c \in 1..InternalCalls : send_and_wait_resume(c)
    \/ \E c \in 1..InternalCalls : send_and_wait_timeout(c)

SpecInternal == Init /\ [][NextInternal]_vars

\* ======================= properties ====================================
Admitted(w) == hpc[w] = "idle" /\ hpc'[w] # "idle"
OpenFor(s) == {w \in WS : state[w] = "open" /\ session_id[w] = s}

\* C1: at every instant at most one connection record admitted under a
\* session_id is OPEN.
C1_OneOpenPerSession ==
    \A s \in Sessions : Cardinality(OpenFor(s)) <= 1

\* the registry binds a session to the websocket admitted under it, and no
\* websocket to two sessions
RegistryWellFormed ==
    /\ \A s \in DOMAIN sessions :
          session_id[sessions[s].websocket] = s
    /\ \A s, t \in DOMAIN sessions :
          sessions[s].websocket = sessions[t].websocket => s = t

\* C2: an accept whose conn_seq is <= the stored conn_seq returns
\* accept=false with a reason naming both sequences and leaves the entry
\* unchanged; the registry always holds one well-formed entry per session.
C2_StaleRejected ==
    [][/\ \A w \in WS :
            (/\ Admitted(w)
             /\ session_id'[w] \in DOMAIN sessions
             /\ conn_seq'[w] <= sessions[session_id'[w]].conn_seq)
            => /\ decision'[w].accept = FALSE
               /\ decision'[w].supersede = None
               /\ decision'[w].reason =
                     <<"Connection sequence", conn_seq'[w], "<= current",
                       sessions[session_id'[w]].conn_seq>>
               /\ sessions' = sessions
       /\ RegistryWellFormed']_vars

C2_Witness ==
    \E w \in WS :
        /\ hpc[w] = "rejecting"
        /\ ~decision[w].accept
        /\ decision[w].reason # <<>>
        /\ session_id[w] \in DOMAIN sessions
        /\ sessions[session_id[w]].websocket # w
        /\ conn_seq[w] = sessions[session_id[w]].conn_seq

\* C3: an accept with a strictly greater conn_seq returns accept=true,
\* stores the new websocket and returns the previously stored websocket as
\* supersede; a first accept returns supersede=None (the admission goes on
\* to install at once, nothing is recorded as superseded or closed); no
\* websocket is returned as supersede by two accepts.
C3_SupersedeReturnsPrevious ==
    [][\A w \in WS : Admitted(w) =>
          LET sid == session_id'[w] d == decision'[w] IN
          IF sid \notin DOMAIN sessions
          THEN /\ hpc'[w] = "loop"
               /\ superseded' = superseded
               /\ closed' = closed
               /\ sid \in DOMAIN sessions'
               /\ sessions'[sid].websocket = w
               /\ \A seq \in Seqs :
                     LET r == accept(sessions, sid, seq, w) IN
                     /\ r.decision.accept
                     /\ r.decision.supersede = None
                     /\ r.sessions[sid] = SessionEntry(seq, w)
          ELSE conn_seq'[w] > sessions[sid].conn_seq =>
               /\ d.accept
               /\ d.supersede = sessions[sid].websocket
               /\ d.supersede # w
               /\ d.supersede # None
               /\ sessions'[sid] = SessionEntry(conn_seq'[w], w)
               /\ d.supersede \notin superseded]_vars

C3_Witness ==
    \E u, v, w \in WS :
        /\ u # v
        /\ superseded = {u, v}
        /\ decision[w].accept /\ decision[w].supersede = v
        /\ sessions[session_id[w]].websocket = w

\* C4: clear_if_match removes the entry and returns true only when the
\* entry holds that very websocket, else returns false and changes nothing;
\* the cleanup of a superseded connection leaves its successor registered.
C4_ClearIfMatchIdentity ==
    /\ [](\A s \in Sessions, w \in WS :
            LET r == clear_if_match(sessions, s, w) IN
            IF s \in DOMAIN sessions /\ sessions[s].websocket = w
            THEN r.result /\ r.sessions = DictDel(sessions, s)
            ELSE ~r.result /\ r.sessions = sessions)
    /\ [][\A w \in WS : (hpc[w] = "loop" /\ hpc'[w] = "cleanup") =>
             IF /\ session_id[w] \in DOMAIN sessions
                /\ sessions[session_id[w]].websocket = w
             THEN sessions' = DictDel(sessions, session_id[w])
             ELSE sessions' = sessions]_vars

C4_Witness ==
    \E v, w \in WS :
        /\ v \in superseded
        /\ hpc[v] = "cleanup"
        /\ v # w
        /\ session_id[w] = session_id[v]
        /\ session_id[v] \in DOMAIN sessions
        /\ sessions[session_id[v]].websocket = w
        /\ hpc[w] = "loop"

\* the message loop finished with the envelope it was processing
Processed(w) == hpc[w] \in {"ponging", "forwarding"} /\ hpc'[w] = "loop"
TimedOut(c) == cpc[c] = "waiting" /\ cpc'[c] = "done" /\ future[c][1] = "pending"

\* C5 as stated: every inbound envelope whose id is the key of a pending
\* command resolves that command's future with the envelope's body.
C5_AnyEnvelopeResolves ==
    [][\A w \in WS : (Processed(w) /\ msg[w].id \in pending_commands)
          => future'[msg[w].id] = <<"result", msg[w].body>>]_vars

\* C5 amended: an envelope of a type other than hb/ack/pong whose id is
\* still the key of a pending, unresolved command when the message loop
\* checks it resolves that future with its body; a resolved future keeps
\* its result and the call returns exactly that body.
C5_ReplyResolves ==
    [][/\ \A w \in WS :
            (/\ Processed(w)
             /\ msg[w].type \notin INTERNAL_TYPES
             /\ msg[w].id \in pending_commands
             /\ future[msg[w].id][1] = "pending")
            => future'[msg[w].id] = <<"result", msg[w].body>>
       /\ \A c \in Calls :
            /\ future[c][1] = "result" => future'[c] = future[c]
            /\ (cpc[c] = "waiting" /\ cpc'[c] = "done" /\ future[c][1] = "result")
               => outcome'[c] = <<"return", future[c][2]>>]_vars

C5_Witness ==
    \E c \in Calls :
        /\ cpc[c] = "done"
        /\ outcome[c] = <<"return", "b2">>
        /\ future[c] = <<"result", "b2">>

\* C6: a wait that times out raises a timeout error, which differs from
\* the no-connection error; once send_and_wait has returned or raised, the
\* id it issued is not a key of the pending-command map.
C6_TimeoutAndPop ==
    [][\A c \in Calls :
          /\ TimedOut(c) => /\ outcome'[c] = TimeoutError
                            /\ outcome'[c][1] # NoConnectionError[1]
          /\ cpc'[c] = "done" => c \notin pending_commands']_vars

C6_Witness ==
    \E c \in Calls :
        /\ cpc[c] = "done"
        /\ outcome[c] = TimeoutError
        /\ sent_on[c] # None
        /\ c \notin pending_commands

\* C7: send_and_wait without a primary connection fails at once with the
\* no-connection error, sends nothing, registers nothing and does not wait.
C7_NoConnectionFailsFast ==
    [][\A c \in Calls :
          (cpc[c] = "idle" /\ cpc'[c] # "idle" /\ current_ws = None)
          => /\ outcome'[c] = NoConnectionError
             /\ cpc'[c] = "done"
             /\ sent_on' = sent_on
             /\ pending_commands' = pending_commands
             /\ future' = future]_vars

C7_Witness ==
    \E c \in Calls :
        /\ cpc[c] = "done"
        /\ outcome[c] = NoConnectionError
        /\ sent_on[c] = None
        /\ future[c][1] = "none"

\* C8: when the message loop of a connection exits, cleanup fails every
\* pending unresolved command with "Connection closed" and empties the
\* pending-command map; the caller sees that reason.
C8_TeardownCancelsAll ==
    [][/\ \A w \in WS : (hpc[w] = "loop" /\ hpc'[w] = "cleanup") =>
            /\ pending_commands' = {}
            /\ \A c \in Calls :
                  future'[c] = IF c \in pending_commands /\ future[c][1] = "pending"
                               THEN <<"exception", "Connection closed">>
                               ELSE future[c]
       /\ \A c \in Calls :
            (cpc[c] = "waiting" /\ cpc'[c] = "done"
               /\ future[c] = <<"exception", "Connection closed">>)
            => outcome'[c] = <<"RuntimeError", "Connection closed">>]_vars

C8_Witness ==
    /\ \A c \in 1..MaxCalls : outcome[c] = <<"RuntimeError", "Connection closed">>
    /\ pending_commands = {}

\* C9: processing compile_started fails every pending unresolved command
\* with "Compilation started" and empties the pending-command map in the
\* one step that processes the envelope.
C9_CompileStartCancelsAll ==
    [][\A w \in WS :
          (hpc[w] = "loop" /\ hpc'[w] \notin {"loop", "cleanup"}
             /\ msg'[w].type = "compile_started") =>
          /\ pending_commands' = {}
          /\ \A c \in Calls :
                future'[c] = IF c \in pending_commands /\ future[c][1] = "pending"
                             THEN <<"exception", "Compilation started">>
                             ELSE future[c]]_vars

C9_Witness ==
    /\ \A c \in 1..MaxCalls : future[c] = <<"exception", "Compilation started">>
    /\ \A c \in 1..MaxCalls : cpc[c] = "waiting"
    /\ pending_commands = {}

C11_CloseAfterInstall ==
    \A w \in WS :
        (/\ hpc[w] = "superseding"
         /\ closed[decision[w].supersede] = SUPERSEDED)
        => current_ws = w

\* websockets the registry has accepted (a rejected one ends CONNECTING),
\* and the one accepted last: websockets are numbered in the order of
\* their accept calls
Accepted ==
    {w \in WS : \/ hpc[w] \in {"superseding", "loop", "cleanup"}
                \/ hpc[w] = "done" /\ state[w] = "closed"}
LastAccepted == CHOOSE w \in Accepted : \A v \in Accepted : v <= w

\* C12: at any time the primary transport of send_and_wait is the
\* transport the registry accepted most recently.
C12_PrimaryIsLastAccepted ==
    current_ws # None => current_ws = LastAccepted

\* the registry holds no entry whose transport is w, and the primary
\* pointers do not reference w
Detached(w) ==
    /\ \A s \in DOMAIN sessions : sessions[s].websocket # w
    /\ current_ws # w
    /\ current_connection # w

\* C13: when the message loop of an accepted connection exits, the cleanup
\* runs to completion; from its first step on the record is CLOSED, the
\* registry holds no entry for the transport and the primary pointers do
\* not reference it; the subscribers are notified with false; when it
\* ends the heartbeat is stopped if the registry is empty.
C13_CleanupCompletes ==
    /\ [](\A w \in WS : hpc[w] = "cleanup" => state[w] = "closed" /\ Detached(w))
    /\ [][\A w \in WS :
            /\ (hpc[w] = "loop" /\ hpc'[w] = "cleanup") => notified' = "false"
            /\ (hpc[w] = "cleanup" /\ hpc'[w] = "done") =>
                  /\ state'[w] = "closed"
                  /\ Detached(w)'
                  /\ size(sessions') = 0 => ~hb_running']_vars
    /\ \A w \in 1..TdConns : (hpc[w] = "cleanup") ~> (hpc[w] = "done")

C13_Witness ==
    /\ \A w \in 1..TdConns : hpc[w] = "done" /\ state[w] = "closed"
    /\ superseded # {}
    /\ sessions = EmptyDict
    /\ ~hb_running
    /\ notified = "false"
    /\ ca_pc = "idle"

\* C14: when admission returns accept=false, handle_connection closes the
\* rejected transport with DUPLICATE_SESSION and returns: the registry, the
\* primary pointers, the pending-command map and the heartbeat are
\* unchanged, nobody is notified, and the transport never reaches the
\* message loop or the cleanup.
C14_RejectLeavesNoTrace ==
    [][\A w \in WS :
          /\ (Admitted(w) /\ hpc'[w] = "rejecting") =>
                /\ ~decision'[w].accept
                /\ closed'[w] = DUPLICATE_SESSION
                /\ \A v \in WS \ {w} : closed'[v] = closed[v]
                /\ UNCHANGED <<sessions, mgrVars, pending_commands, future,
                               hb_running, notified, state>>
          /\ (Admitted(w) /\ ~accept(sessions, session_id'[w], conn_seq'[w], w).decision.accept)
                => hpc'[w] = "rejecting"
          /\ (hpc[w] = "rejecting" /\ hpc'[w] # "rejecting") =>
                /\ hpc'[w] = "done"
                /\ state'[w] = "connecting"
                /\ UNCHANGED <<sessions, mgrVars, pending_commands, future,
                               hb_running, notified, state, closed>>]_vars

C14_Witness ==
    \E w \in WS :
        /\ hpc[w] = "done"
        /\ state[w] = "connecting"
        /\ closed[w] = DUPLICATE_SESSION
        /\ current_ws \notin {None, w}
        /\ hb_running


\* C15: send_and_wait sends its envelope only on a primary connection whose
\* record is OPEN at that moment; without an OPEN primary record (its
\* teardown has begun, or the manager was shut down) the call fails with
\* the no-connection error and sends nothing.
C15_SendsOnlyWhenOpen ==
    [][\A c \in Calls :
          (cpc[c] = "idle" /\ cpc'[c] # "idle") =>
             IF current_connection # None /\ state[current_connection] = "open"
             THEN /\ sent_on'[c] = current_ws
                  /\ state[sent_on'[c]] = "open"
                  /\ cpc'[c] = "waiting"
             ELSE /\ outcome'[c] = NoConnectionError
                  /\ sent_on'[c] = None
                  /\ cpc'[c] = "done"]_vars

C15_Witness ==
    \E w \in WS :
        /\ state[w] = "closed"
        /\ hpc[w] = "cleanup"
        /\ sent_on[1] = w
        /\ cpc[2] = "done"
        /\ outcome[2] = NoConnectionError
        /\ sent_on[2] = None


\* C16: the timeout of one send_and_wait call removes that call's pending
\* entry and no other, and resolves no other command's future; a reply
\* whose id has already timed out resolves nothing, raises nothing and the
\* message loop goes on.
C16_TimeoutIsLocal ==
    [][/\ \A c \in Calls :
             TimedOut(c) =>
                /\ c \in pending_commands
                /\ pending_commands' = pending_commands \ {c}
                /\ \A d \in Calls \ {c} : future'[d] = future[d]
                /\ outcome'[c] = TimeoutError
       /\ \A w \in WS :
             (/\ hpc[w] = "forwarding"
              /\ hpc'[w] # "forwarding"
              /\ msg[w].id \in Calls
              /\ outcome[msg[w].id] = TimeoutError) =>
                /\ future' = future
                /\ pending_commands' = pending_commands
                /\ outcome' = outcome
                /\ hpc'[w] = "loop"]_vars

C16_Witness ==
    \E w \in WS :
        /\ hpc[w] = "forwarding"
        /\ msg[w].type = "result"
        /\ msg[w].id = 1
        /\ outcome[1] = TimeoutError
        /\ future[1][1] = "cancelled"
        /\ pending_commands = {2}
        /\ future[2][1] = "pending"


Unmatched(w) == msg[w].type \notin INTERNAL_TYPES /\ msg[w].id \notin pending_commands

\* C17 as stated: a valid envelope of any non-internal type whose id
\* matches no pending command is passed to the sink once, resolves no
\* future and leaves the pending-command map unchanged, and the loop goes on.
C17_UnmatchedOnlyForwarded ==
    [][\A w \in WS :
          /\ (hpc[w] = "loop" /\ hpc'[w] \notin {"loop", "cleanup"}
                /\ msg'[w].type \notin INTERNAL_TYPES
                /\ msg'[w].id \notin pending_commands) =>
                /\ msg'[w].delivered <= 1
                /\ future' = future
                /\ pending_commands' = pending_commands
          /\ (Processed(w) /\ Unmatched(w)) =>
                /\ msg[w].delivered = 1
                /\ future' = future
                /\ pending_commands' = pending_commands]_vars

\* C17, for every non-internal type but compile_started (which cancels the
\* pending commands, C9): the envelope is passed to the sink exactly once
\* while it is processed, no step of its processing changes a future or
\* the pending-command map, and the loop goes on to the next message.
C17_UnmatchedForwardedOnce ==
    [][\A w \in WS :
          /\ (hpc[w] = "loop" /\ hpc'[w] \notin {"loop", "cleanup"}
                /\ msg'[w].type \notin INTERNAL_TYPES \cup {"compile_started"}
                /\ msg'[w].id \notin pending_commands) =>
                /\ msg'[w].delivered <= 1
                /\ future' = future
                /\ pending_commands' = pending_commands
          /\ (hpc[w] \in {"acking", "forwarding"} /\ hpc'[w] # hpc[w]) =>
                /\ hpc'[w] = IF hpc[w] = "acking" THEN "forwarding" ELSE "loop"
                /\ hpc[w] = "acking" => msg'[w].delivered = msg[w].delivered + 1
          /\ (Processed(w) /\ Unmatched(w)) =>
                /\ msg[w].delivered = 1
                /\ future' = future
                /\ pending_commands' = pending_commands]_vars

C17_Witness ==
    \E w \in WS :
        /\ hpc[w] = "forwarding"
        /\ msg[w].type = "result"
        /\ msg[w].id = ForeignId
        /\ msg[w].delivered = 1
        /\ pending_commands = {1, 2}
        /\ \A c \in {1, 2} : future[c][1] = "pending"


Suspends(w, type) ==
    hpc[w] = "loop" /\ hpc'[w] = "acking" /\ msg'[w].type = type

\* C18: the heartbeat's suspend-until deadline never decreases: a
\* suspend(d) at time now leaves the maximum of the previous deadline and
\* now + d, whichever of two suspensions came first, and no other step
\* changes the deadline.
C18_SuspendOnlyExtends ==
    [][/\ suspend_until' >= suspend_until
       /\ \A w \in WS :
             /\ Suspends(w, "compile_started") =>
                   suspend_until' = Max(suspend_until, now + COMPILE_START_SUSPEND_MS)
             /\ Suspends(w, "compile_finished") =>
                   suspend_until' = Max(suspend_until, now + COMPILE_FINISH_SUSPEND_MS)
       /\ (\A w \in WS : hpc'[w] = "acking" => hpc[w] = "acking") =>
             suspend_until' = suspend_until]_vars

\* a shorter suspension requested after a longer one, at a later time, and
\* the longer deadline still stands
C18_Witness ==
    /\ hpc[1] = "acking"
    /\ msg[1].type = "compile_finished"
    /\ hpc[2] = "idle"
    /\ now = sweep_interval_ms
    /\ suspend_until = COMPILE_START_SUSPEND_MS
    /\ suspend_until > now + COMPILE_FINISH_SUSPEND_MS


\* a step of the heartbeat task: its sleep ended, or an await of its sweep
\* returned
HeartbeatStep ==
    /\ hb_pc # "stopped"
    /\ hb_pc' # "stopped"
    /\ hbTask' # hbTask

\* C19: while now < suspend_until the heartbeat sends no ping, closes no
\* connection and changes no connection's is_alive or missed_pongs, also
\* when suspend is called while a sweep over several connections is in
\* progress.
C19_SuspendedSweepsNothing ==
    [][(HeartbeatStep /\ is_suspended(now, suspend_until)) =>
          /\ pings' = pings
          /\ closed' = closed
          /\ is_alive' = is_alive
          /\ missed_pongs' = missed_pongs]_vars


\* the websockets a step of the heartbeat task checks, and the sweep's time
SweepSkipped == hb_pc = "sleeping" /\ is_suspended(now, suspend_until)
Checked ==
    (IF hb_pc = "sleeping" THEN Registered ELSE sweep_todo)
        \ (IF hb_pc' = "sweeping" THEN sweep_todo' ELSE {})
SweepTime == IF hb_pc = "sleeping" THEN now ELSE sweep_now
IdlePastPing(w) ==
    /\ state[w] = "open"
    /\ SweepTime - last_seen[w] > ping_after_idle_ms
    /\ SweepTime - last_seen[w] <= max_idle_ms

\* C20: for an OPEN connection idle for more than ping_after_idle_ms and
\* at most max_idle_ms, a sweep that finds is_alive true sends exactly one
\* ping and sets is_alive false; a sweep that finds is_alive false (nothing
\* was received since) adds one to missed_pongs, and either pings again or,
\* when missed_pongs reaches max_missed_pongs, terminates the connection
\* with 1011 and sends no ping; no connection is terminated earlier.
C20_PingMissTerminate ==
    [][\A w \in WS :
          /\ (HeartbeatStep /\ ~SweepSkipped /\ w \in Checked /\ IdlePastPing(w)) =>
                IF is_alive[w]
                THEN /\ pings'[w] = pings[w] + 1
                     /\ ~is_alive'[w]
                     /\ missed_pongs'[w] = missed_pongs[w]
                     /\ closed'[w] = closed[w]
                ELSE /\ missed_pongs'[w] = missed_pongs[w] + 1
                     /\ ~is_alive'[w]
                     /\ IF missed_pongs'[w] >= max_missed_pongs
                        THEN /\ closed'[w] = INTERNAL_ERROR
                             /\ pings'[w] = pings[w]
                        ELSE /\ closed'[w] = closed[w]
                             /\ pings'[w] = pings[w] + 1
          /\ (closed'[w] = INTERNAL_ERROR /\ closed[w] # INTERNAL_ERROR) =>
                /\ missed_pongs[w] = max_missed_pongs - 1
                /\ missed_pongs'[w] = max_missed_pongs]_vars

C20_Witness ==
    \E w \in WS :
        /\ closed[w] = INTERNAL_ERROR
        /\ state[w] = "open"
        /\ missed_pongs[w] = max_missed_pongs
        /\ pings[w] = max_missed_pongs
        /\ ~is_alive[w]
        /\ last_seen[w] = 0
        /\ now = 6 * sweep_interval_ms

\* ---- router: the step that reads a frame from websocket w
Received(w) == hpc[w] = "loop" /\ msg'[w] # msg[w]

C23_MalformedDropped ==
    [][\A w \in WS :
          (Received(w) /\ msg'[w].frame \in Frames) =>
              /\ hpc'[w] = "loop"
              /\ state'[w] = "open"
              /\ closed' = closed
              /\ msg'[w].sent = <<>>
              /\ msg'[w].delivered = 0
              /\ is_compiling' = is_compiling
              /\ pending_commands' = pending_commands
              /\ future' = future
      ]_vars

\* C24: after compile_started the connection's is_compiling is true and
\* the heartbeat is suspended until at least now + 120 s; after
\* compile_finished is_compiling is false and the heartbeat is suspended
\* until at least now + 30 s; in both cases the compilation callback has
\* run (no command is pending after compile_started) before the envelope
\* is passed to the sink, and it is passed to the sink
C24_CompileFlagAndSuspension ==
    [][\A w \in WS :
          /\ (Received(w) /\ msg'[w].type = "compile_started") =>
                /\ is_compiling'[w]
                /\ suspend_until' >= now + 120000
                /\ pending_commands' = {}
                /\ msg'[w].delivered = 0
                /\ hpc'[w] = "acking"
          /\ (Received(w) /\ msg'[w].type = "compile_finished") =>
                /\ ~is_compiling'[w]
                /\ suspend_until' >= now + 30000
                /\ msg'[w].delivered = 0
                /\ hpc'[w] = "acking"
          /\ (hpc[w] = "acking" /\ hpc'[w] # "acking"
                /\ msg[w].type \in {"compile_started", "compile_finished"}) =>
                /\ msg'[w].delivered = 1
                /\ hpc'[w] = "forwarding"
                /\ is_compiling' = is_compiling
                /\ suspend_until' = suspend_until
      ]_vars

\* a compile_finished that followed a compile_started at a later time was
\* passed to the sink: the flag is cleared, the longer suspension stands
C24_Witness ==
    \E w \in WS :
        /\ hpc[w] = "forwarding"
        /\ msg[w].type = "compile_finished"
        /\ msg[w].delivered = 1
        /\ ~is_compiling[w]
        /\ now > 0
        /\ suspend_until > now + COMPILE_FINISH_SUSPEND_MS

\* C25: an exception raised by the sink never ends the message loop: the
\* envelope is still returned to the loop and matched against the pending
\* commands, the connection stays OPEN and reads the next frame
C25_SinkErrorContained ==
    [][\A w \in WS :
          /\ (msg'[w].raised /\ ~msg[w].raised) =>
                /\ hpc'[w] = "forwarding"
                /\ state'[w] = "open"
                /\ closed' = closed
                /\ future' = future
                /\ pending_commands' = pending_commands
          /\ (hpc[w] = "forwarding" /\ msg[w].raised /\ hpc'[w] # "forwarding") =>
                /\ hpc'[w] = "loop"
                /\ state'[w] = "open"
                /\ future' = IF msg[w].id \in pending_commands
                                 /\ future[msg[w].id][1] = "pending"
                              THEN [future EXCEPT ![msg[w].id] = <<"result", msg[w].body>>]
                              ELSE future
      ]_vars

\* the reply to a pending command made the sink raise and was returned to
\* the loop, which is about to match it
C25_Witness ==
    \E w \in WS :
        /\ hpc[w] = "forwarding"
        /\ state[w] = "open"
        /\ msg[w].type = "result"
        /\ msg[w].raised
        /\ msg[w].delivered = 1
        /\ msg[w].id \in pending_commands
        /\ future[msg[w].id][1] = "pending"

\* C26: handle_message updates last_seen, and resets is_alive and
\* missed_pongs, only after the frame was parsed: a frame that is no
\* envelope leaves the three fields as they were
C26_SeenOnlyAfterParse ==
    [][\A w \in WS :
          /\ (Received(w) /\ msg'[w].frame = "object") =>
                /\ last_seen'[w] = now
                /\ is_alive'[w]
                /\ missed_pongs'[w] = 0
          /\ (Received(w) /\ msg'[w].frame \in Frames) =>
                /\ last_seen'[w] = last_seen[w]
                /\ is_alive'[w] = is_alive[w]
                /\ missed_pongs'[w] = missed_pongs[w]
      ]_vars

\* C26 as the code has it: handle_message updates last_seen, and resets
\* is_alive and missed_pongs, for every frame it is given, before it
\* parses the frame: a frame that is no envelope updates them too
C26_SeenOnEveryFrame ==
    [][\A w \in WS :
          (Received(w) /\ msg'[w].frame \in Frames \cup {"object"}) =>
              /\ last_seen'[w] = now
              /\ is_alive'[w]
              /\ missed_pongs'[w] = 0
      ]_vars

\* the only connection, open for a sweep interval (the sleep that began
\* with it is over), has just received text that is no JSON, or an object
\* that lacks a field, and counts as seen now
C26_Witness ==
    \E w \in WS :
        /\ hpc[w] = "loop"
        /\ msg[w].frame \in {"not_json", "incomplete"}
        /\ \A v \in WS \ {w} : hpc[v] = "idle"
        /\ hb_pc = "sleeping" /\ hb_wake = now
        /\ last_seen[w] = now

\* the step in which the heartbeat task checks websocket w
ChecksNow(w) == HeartbeatStep /\ ~SweepSkipped /\ w \in Checked

C28_PingOnlyIdleOpen ==
    [][\A w \in WS :
          /\ pings'[w] # pings[w] =>
                /\ ChecksNow(w)
                /\ state[w] = "open"
                /\ SweepTime - last_seen[w] > ping_after_idle_ms
                /\ pings'[w] = pings[w] + 1
          /\ (ChecksNow(w) /\ state[w] = "open"
                /\ SweepTime - last_seen[w] <= ping_after_idle_ms) =>
                /\ pings'[w] = pings[w]
                /\ pending_pings'[w] = pending_pings[w]
                /\ closed'[w] = closed[w]
                /\ is_alive'[w]
                /\ missed_pongs'[w] = 0
      ]_vars

\* one sweep passed over an OPEN connection that was active within
\* ping_after_idle_ms and pinged the next one, idle for longer
C28_Witness ==
    \E v \in WS, w \in WS :
        /\ v < w
        /\ hb_pc = "sweeping"
        /\ {v, w} \subseteq Registered
        /\ state[v] = "open" /\ state[w] = "open"
        /\ sweep_now - last_seen[v] <= ping_after_idle_ms
        /\ sweep_now - last_seen[v] > 0
        /\ pings[v] = 0 /\ is_alive[v] /\ missed_pongs[v] = 0
        /\ sweep_now - last_seen[w] > ping_after_idle_ms
        /\ pings[w] = 1 /\ pending_pings[w] = sweep_now

\* the step in which a send that the sweep awaited raises
SendRaised == \E w \in WS : pings'[w] < pings[w]

\* what the check of websocket v does to v in a step of the sweep
CheckedAsUsual(v) ==
    IF state[v] # "open" \/ SweepTime - last_seen[v] > max_idle_ms
    THEN pings'[v] = pings[v] /\ is_alive'[v] = is_alive[v]
    ELSE IF SweepTime - last_seen[v] <= ping_after_idle_ms
    THEN pings'[v] = pings[v] /\ is_alive'[v] /\ missed_pongs'[v] = 0
    ELSE /\ ~is_alive'[v]
         /\ missed_pongs'[v] = missed_pongs[v] + (IF is_alive[v] THEN 0 ELSE 1)
         /\ \/ pings'[v] = pings[v] + 1 /\ pending_pings'[v] = SweepTime
            \/ closed'[v] = INTERNAL_ERROR /\ missed_pongs'[v] >= max_missed_pongs

\* C29: an exception raised while the sweep checks one connection does not
\* stop the sweep: every other connection of the snapshot that was still
\* to be checked is checked in the same sweep, and the heartbeat loop goes
\* on to sleep for the next sweep
C29_SweepSurvivesException ==
    [][SendRaised =>
          /\ hb_running'
          /\ hb_pc' \in {"sweeping", "sleeping"}
          /\ hb_pc' = "sweeping" => sweep_now' = sweep_now
          /\ hb_pc' = "sleeping" => hb_wake' = now + sweep_interval_ms
          /\ \A v \in sweep_todo :
                \/ hb_pc' = "sweeping" /\ v \in sweep_todo'
                \/ CheckedAsUsual(v)
      ]_vars

\* the send of the ping to one connection raised, and the sweep pinged the
\* next connection of its snapshot
C29_Witness ==
    \E v \in WS, w \in WS :
        /\ v < w
        /\ hb_pc = "sweeping"
        /\ sweep_cur = w
        /\ {v, w} \subseteq Registered
        /\ state[v] = "open"
        /\ sweep_now - last_seen[v] > ping_after_idle_ms
        /\ ~is_alive[v] /\ pings[v] = 0 /\ pending_pings[v] = -1
        /\ pings[w] = 1 /\ pending_pings[w] = sweep_now

\* the order of ConnectionState, types.py lines 21-26
Rank(st) ==
    CASE st = "connecting" -> 0
      [] st = "open" -> 1
      [] st = "closing" -> 2
      [] st = "closed" -> 3

\* C30: the state of a connection record only moves forward along
\* CONNECTING, OPEN, CLOSING, CLOSED: it becomes OPEN only from CONNECTING
\* and only through an admission that accepted the websocket (at once, or
\* after the close of the superseded websocket), it never moves backwards,
\* and once CLOSED it never changes
C30_StateMovesForward ==
    [][\A w \in WS :
          /\ Rank(state'[w]) >= Rank(state[w])
          /\ (state'[w] = "open" /\ state[w] # "open") =>
                /\ state[w] = "connecting"
                /\ \/ /\ hpc[w] = "superseding"
                      /\ decision[w].accept
                   \/ /\ hpc[w] = "idle"
                      /\ session_id'[w] \in DOMAIN sessions'
                      /\ sessions'[session_id'[w]].websocket = w
          /\ state[w] = "closed" => state'[w] = "closed"
      ]_vars

\* one websocket superseded another and was closed in its turn, a third
\* was rejected and never left CONNECTING
C30_Witness ==
    \E u \in WS, v \in WS, w \in WS :
        /\ state[u] = "closed" /\ u \in superseded
        /\ state[v] = "closed" /\ v \notin superseded /\ v # u
        /\ state[w] = "connecting" /\ hpc[w] = "done"


\* a step in which handle_connection or its message loop gets the outcome
\* of a send over the broken transport of websocket w
SendFails(w) ==
    /\ w \in broken
    /\ hpc[w] \in {"idle", "superseding", "ponging", "acking"}
    /\ hpc'[w] # hpc[w]

\* what the caller of send_and_wait sees apart from a reply
CallerErrors ==
    {NoConnectionError, TimeoutError,
     <<"RuntimeError", "Connection closed">>,
     <<"RuntimeError", "Compilation started">>}

\* C31: a send that fails in the transport yields a failure result and is
\* not raised: the handler that sent a welcome, a pong or an ack goes on
\* with its message loop and its connection stays as it is, the heartbeat
\* task that sent a ping goes on with its sweep and its sleep, and a call
\* of send_and_wait ends with a reply, the no-connection error, a timeout
\* or a forced cancellation only
C31_SendFailureContained ==
    [][/\ \A w \in WS :
             SendFails(w) =>
                /\ hpc'[w] \in {"loop", "forwarding", "rejecting", "superseding"}
                /\ hpc[w] \in {"ponging", "acking"} =>
                      /\ state'[w] = state[w]
                      /\ sessions' = sessions
                      /\ current_ws' = current_ws
       /\ (hb_pc = "sweeping" /\ sweep_cur \in broken /\ hbTask' # hbTask
              /\ hb_running') =>
             /\ hb_pc' \in {"sweeping", "sleeping"}
             /\ hb_pc' = "sleeping" => hb_wake' = now + sweep_interval_ms
       /\ \A c \in Calls :
             outcome'[c] # outcome[c] =>
                \/ outcome'[c][1] = "return"
                \/ outcome'[c] \in CallerErrors
      ]_vars

\* the transport of an open connection is broken: a ping and the ack of a
\* hello were sent over it and its message loop goes on, and a command
\* sent over it ended with a timeout
C31_Witness ==
    \E w \in WS, c \in Calls :
        /\ w \in broken
        /\ state[w] = "open"
        /\ hpc[w] = "forwarding"
        /\ msg[w].type = "hello"
        /\ pings[w] = 1
        /\ hb_pc = "sleeping"
        /\ sent_on[c] = w
        /\ outcome[c] = TimeoutError


\* Future.done(): the future has a result, an exception or was cancelled
done(f) == f[1] \in {"result", "exception", "cancelled"}

\* C32: the future of a command is set once: no reply, timeout,
\* compile_started or teardown sets a future that is done (asyncio would
\* raise InvalidStateError in the message loop or in the cleanup), the
\* step of such a later event ends as it does without the command, and
\* what send_and_wait returned or raised never changes
C32_OutcomeSetOnce ==
    [][\A c \in Calls :
          /\ done(future[c]) => future'[c] = future[c]
          /\ cpc[c] = "done" => outcome'[c] = outcome[c]
          /\ (done(future[c]) /\ cpc[c] = "waiting" /\ cpc'[c] = "done") =>
                outcome'[c][2] = future[c][2]
          /\ \A w \in WS :
                /\ (hpc[w] = "forwarding" /\ msg[w].id = c /\ done(future[c])
                       /\ hpc'[w] # hpc[w]) => hpc'[w] = "loop"
      ]_vars

\* a command was answered, and before its caller resumed the connection
\* was torn down with the command still in the map: it keeps its result
C32_Witness ==
    \E c \in Calls :
        /\ future[c][1] = "result"
        /\ cpc[c] = "waiting"
        /\ sent_on[c] # None
        /\ hpc[sent_on[c]] = "cleanup"
        /\ state[sent_on[c]] = "closed"
        /\ pending_commands = {}


\* UnityManager.is_connected lines 261-268
is_connected ==
    /\ current_ws # None
    /\ current_connection # None
    /\ state[current_connection] = "open"

\* no handle_connection call is between its accept and its message loop,
\* or in its cleanup
NoAdmissionOrCleanup ==
    \A w \in WS : hpc[w] \notin {"rejecting", "superseding", "cleanup"}

\* the registry holds an entry whose connection is OPEN
OpenRegistered ==
    \E s \in DOMAIN sessions : state[sessions[s].websocket] = "open"

\* C33: whenever no handle_connection call is in the middle of admission
\* or cleanup and the registry holds an entry whose connection is OPEN,
\* is_connected is true
C33_OpenEntryHasPrimary ==
    (NoAdmissionOrCleanup /\ OpenRegistered) => is_connected


\* C34: whenever no handle_connection call is in the middle of admission
\* or cleanup, the value most recently delivered to the connection-change
\* subscribers equals is_connected
C34_SubscribersKnowPrimary ==
    (NoAdmissionOrCleanup /\ notified # "none") =>
        (notified = "true" <=> is_connected)


\* C35 as stated: the sequence numbers accepted for a session increase
\* over the whole run, also after the accepted connection disconnected and
\* its entry was removed: while the cleanup of a connection that was
\* accepted for a session (with a sequence n >= 0) is under way, a
\* connection accepted for that session has a sequence greater than 0
C35_SeqIncreasesForever ==
    [][\A v \in WS, w \in WS :
          (/\ hpc[v] = "cleanup"
           /\ Admitted(w)
           /\ session_id'[w] = session_id[v]
           /\ session_id'[w] \in DOMAIN sessions'
           /\ sessions'[session_id'[w]].websocket = w)
          => sessions'[session_id'[w]].conn_seq > 0]_vars

\* C35 amended: while a session has an entry, the sequence of the entry
\* only increases (an attempt with a sequence less than or equal to it is
\* rejected and leaves the entry as it is); once the entry was removed, a
\* connection for the session is accepted with any sequence
C35_SeqIncreasesWhileRegistered ==
    [][/\ \A s \in DOMAIN sessions \cap DOMAIN sessions' :
             \/ sessions'[s] = sessions[s]
             \/ sessions'[s].conn_seq > sessions[s].conn_seq
       /\ \A w \in WS :
             (Admitted(w) /\ session_id'[w] \in DOMAIN sessions) =>
                 IF sessions'[session_id'[w]].websocket = w
                 THEN sessions'[session_id'[w]].conn_seq >
                         sessions[session_id'[w]].conn_seq
                 ELSE hpc'[w] = "rejecting" /\ sessions' = sessions
       /\ \A w \in WS :
             (Admitted(w) /\ session_id'[w] \notin DOMAIN sessions) =>
                 /\ hpc'[w] = "loop"
                 /\ sessions'[session_id'[w]].websocket = w
      ]_vars

\* a connection was accepted for a session, its entry was removed by its
\* cleanup, and a later connection is registered for the same session with
\* sequence 0
C35_Witness ==
    \E v, w \in WS :
        /\ v < w
        /\ hpc[v] = "cleanup"
        /\ hpc[w] = "loop"
        /\ session_id[w] = session_id[v]
        /\ session_id[w] \in DOMAIN sessions
        /\ sessions[session_id[w]] = SessionEntry(0, w)


\* the envelope that websocket w's handler received or is answering is of
\* type hb, ack or pong and carries the id of command c
InternalFor(w, c) ==
    \/ /\ Received(w)
       /\ msg'[w].type \in {"hb", "ack", "pong"}
       /\ msg'[w].id = c
    \/ /\ hpc[w] = "ponging"
       /\ hpc'[w] # hpc[w]
       /\ msg[w].id = c

\* C36: an envelope of type hb, ack or pong resolves no pending command,
\* also when its id is the id of a pending command: the steps that handle
\* it leave every future and the pending-command map as they are and never
\* reach the id match, and a pending future is only ever set by the match
\* of an envelope of another type, by a timeout or by a cancellation
C36_InternalNeverResolves ==
    [][/\ \A w \in WS, c \in Calls :
             InternalFor(w, c) =>
                /\ future' = future
                /\ pending_commands' = pending_commands
                /\ hpc'[w] \in {"ponging", "loop"}
       /\ \A c \in Calls :
             (future[c][1] = "pending" /\ future'[c] # future[c]) =>
                \/ \E w \in WS : /\ hpc[w] = "forwarding"
                                 /\ msg[w].id = c
                                 /\ msg[w].type \notin {"hb", "ack", "pong"}
                                 /\ future'[c] = <<"result", msg[w].body>>
                \/ future'[c][1] \in {"exception", "cancelled"}
      ]_vars

\* an ack or a pong with the id of a pending command was consumed, and the
\* command is still pending
C36_Witness ==
    \E w \in WS, c \in Calls :
        /\ hpc[w] = "loop"
        /\ msg[w].type \in {"ack", "pong"}
        /\ msg[w].id = c
        /\ c \in pending_commands
        /\ future[c][1] = "pending"
        /\ cpc[c] = "waiting"


\* the step in which close_all returns
CloseAllReturns == ca_pc = "closing" /\ ca_pc' = "done"

\* the message loop of websocket w's handler is running
InMessageLoop(w) == hpc[w] \in {"loop", "ponging", "acking", "forwarding"}

\* C37: when close_all returns, the registry is empty, there is no primary
\* connection, the heartbeat task is stopped, and every connection whose
\* message loop is still running has been sent a close
C37_CloseAllClosesAll ==
    [][CloseAllReturns =>
          /\ sessions' = EmptyDict
          /\ current_ws' = None
          /\ current_connection' = None
          /\ ~hb_running'
          /\ hb_pc' = "stopped"
          /\ \A w \in WS : InMessageLoop(w)' => closed'[w] # 0
      ]_vars


\* C38: whenever no handle_connection call is in the middle of admission
\* or cleanup and close_all is not running, the heartbeat sweep task is
\* running if and only if the registry is non-empty
C38_HeartbeatIffRegistered ==
    (NoAdmissionOrCleanup /\ ca_pc # "closing") =>
        /\ hb_running <=> sessions # EmptyDict
        /\ hb_running <=> hb_pc # "stopped"


\* a step of clear_if_match that removes the entry of session s
Cleared(s) == s \in DOMAIN sessions /\ s \notin DOMAIN sessions'

\* C39: clear_if_match for a session s removes a project-path mapping only
\* if that mapping points to s: removing s leaves every other registered
\* session reachable through get_session_for_project for the project path
\* that maps to it
C39_ClearKeepsOtherProjects ==
    [][\A s \in Sessions :
          Cleared(s) =>
             \A p \in DOMAIN project_to_session :
                project_to_session[p] # s =>
                   /\ p \in DOMAIN project_to_session'
                   /\ project_to_session'[p] = project_to_session[p]
                   /\ get_session_for_project(project_to_session', sessions', p)
                         = get_session_for_project(project_to_session, sessions, p)
      ]_vars
====
